---- MODULE Spec2Model ----
(***************************************************************************)
(* Model of the TLA2024 driver (adafruit_tla202x/__init__.py).             *)
(*                                                                         *)
(* The device is two 16-bit registers, DATA (read-only sample) and CONFIG  *)
(* (bit fields).  The handle keeps two attributes, _last_one_shot and      *)
(* range.  Every bus transaction of a public operation is one step, so the *)
(* device can act between any two of them; a field write of the register   *)
(* library is a read transaction followed by a write transaction made      *)
(* while the bus lock is held.                                             *)
(***************************************************************************)
EXTENDS Integers, Sequences, FiniteSets, TLC

VARIABLES
    config,         \* device: CONFIG register, 0..65535
    data,           \* device: DATA register, 0..65535
    last_one_shot,  \* handle: self._last_one_shot
    range,          \* handle: self.range (a plain instance attribute)
    lock,           \* bus lock of I2CDevice: NoCaller or the caller holding it
    pc,             \* per caller: position in the running public operation
    op,             \* per caller: the public operation being run and its argument
    val,            \* per caller: the argument of the field setter being run
    buf,            \* per caller: register content read by the running read-modify-write
    raw,            \* per caller: DATA contents read by the running operation, in order
    ret,            \* per caller: the value returned (or the error raised) by the operation
    trace,          \* per caller: bus transactions issued by the running operation, in order
    acq             \* history: the mux code and range in force when the cached result was acquired

devVars    == <<config, data>>
handleVars == <<last_one_shot, range>>
callVars   == <<pc, op, val, buf, raw, ret, trace>>
vars       == <<config, data, last_one_shot, range, lock, pc, op, val, buf, raw, ret, trace, acq>>

----------------------------------------------------------------------------
(* Program constants *)

_DATA_REG   == 0
_CONFIG_REG == 1

OS_BIT     == 15   \* _os        = RWBit(_CONFIG_REG, 15, 2)
MUX_LOW    == 12   \* _mux       = RWBits(3, _CONFIG_REG, 12, 2)
PGA_LOW    == 9    \* _pga       = RWBits(3, _CONFIG_REG, 9, 2)
MODE_BIT   == 8    \* _mode      = RWBit(_CONFIG_REG, 8, 2)
DR_LOW     == 5    \* _data_rate = RWBits(3, _CONFIG_REG, 5, 2)
FIELD_BITS == 3    \* width of the mux, pga and data-rate fields
REG_MOD    == 65536 \* a register is two bytes wide

CONTINUOUS   == 0
ONE_SHOT     == 1
MUX_AIN0_GND == 4
RATE_3300SPS == 6
RANGE_2_048V == 2

\* The keys of each CV's `string` dictionary: what CV.is_valid accepts.
ModeValues     == {0, 1}
RangeValues    == 0 .. 5
DataRateValues == 0 .. 6
MuxValues      == 0 .. 7

is_valid(values, value) == value \in values

----------------------------------------------------------------------------
(* Bounds and inputs *)

\* Reads of the status bit that one acquisition logs before the device answers.
MaxPoll == 2

Callers  == {"A", "B"}
NoCaller == "none"

\* Python values the model handles, as records of one shape: None, an attribute
\* not yet assigned, an int, the AttributeError the setters raise, "no value yet",
\* and a voltage: the float num / VoltsDen, kept as its exact numerator.
None           == [kind |-> "None",           num |-> 0]
NoAttr         == [kind |-> "NoAttr",         num |-> 0]
AttributeError == [kind |-> "AttributeError", num |-> 0]
NoRet          == [kind |-> "NoRet",          num |-> 0]
PyInt(n)       == [kind |-> "int",            num |-> n]
Volts(n)       == [kind |-> "volts",          num |-> n]

\* CONFIG contents the device may hold before the handle is constructed:
\* the chip's reset value 0x8583 and all ones.
PriorConfigs == {34179, 65535}

\* DATA contents the device may present: 0x0000, 0x7FF0 and 0x8000.
DataValues == {0, 32752, 32768}

\* Arguments the caller passes to each setter (valid and invalid ones).
ModeArgs     == {0, 1, 2}
MuxArgs      == {0, 8}
DataRateArgs == {0, 7}
ChannelArgs  == {0, 3, 4}
RangeArgs    == {0, 6}

----------------------------------------------------------------------------
(* Register library: bit fields of a 16-bit big-endian register *)

Pow2(n) == 2 ^ n

\* RWBits.__get__ / RWBit.__get__: (reg & mask) >> lowest_bit
GetBits(reg, nbits, low) == (reg \div Pow2(low)) % Pow2(nbits)

\* RWBits.__set__: reg &= ~mask; reg |= value << lowest_bit; the two bytes are
\* written back.  Every value the driver passes fits its field, so the OR adds.
SetBits(reg, nbits, low, value) ==
    ((reg - GetBits(reg, nbits, low) * Pow2(low)) + value * Pow2(low)) % REG_MOD

_os_of(reg)        == GetBits(reg, 1, OS_BIT)
_mux_of(reg)       == GetBits(reg, FIELD_BITS, MUX_LOW)
_pga_of(reg)       == GetBits(reg, FIELD_BITS, PGA_LOW)
_mode_of(reg)      == GetBits(reg, 1, MODE_BIT)
_data_rate_of(reg) == GetBits(reg, FIELD_BITS, DR_LOW)

----------------------------------------------------------------------------
(* Voltage conversion *)

_raw_adc_read_Unsigned(d) == d

\* ROUnaryStruct(_DATA_REG, ">h"): the two bytes as a signed big-endian integer.
_raw_adc_read(d) == IF d >= 32768 THEN d - REG_MOD ELSE d

\* Python's bit operators on its unbounded two's-complement integers.
BitAt(x, k)    == (x \div Pow2(k)) % 2
OrBit(x, k)    == IF BitAt(x, k) = 1 THEN x ELSE x + Pow2(k)
ClearBit(x, k) == IF BitAt(x, k) = 1 THEN x - Pow2(k) ELSE x
ShiftRight(x, n) == x \div Pow2(n)

\* value |= 0xF000 and value &= ~0xF000
OrF000(x)     == OrBit(OrBit(OrBit(OrBit(x, 12), 13), 14), 15)
AndNotF000(x) == ClearBit(ClearBit(ClearBit(ClearBit(x, 12), 13), 14), 15)

_read_lsb(d) ==
    LET value_lsb == ShiftRight(_raw_adc_read(d), 4)
    IN  IF BitAt(value_lsb, 11) = 1 THEN OrF000(value_lsb) ELSE AndNotF000(value_lsb)

\* The full-scale span each Range entry names ("±6.144 V" ... "±0.256 V"), in mV.
RangeSpan(r) ==
    CASE r = 0 -> 6144
      [] r = 1 -> 4096
      [] r = 2 -> 2048
      [] r = 3 -> 1024
      [] r = 4 -> 512
      [] r = 5 -> 256

v_fsr_ShiftOnly(r) == ShiftRight(8192, r)

\* v_fsr = 8192 >> self.range, 6144 when self.range == 0
v_fsr(r) == IF r = 0 THEN 6144 ELSE ShiftRight(8192, r)

\* (value_lsb / 2047.0) * v_fsr / 1000.0, as the numerator over VoltsDen
VoltsDen == 2047 * 1000
_read_volts(d, r) == Volts(_read_lsb(d) * v_fsr(r))

----------------------------------------------------------------------------
(* Control transfer inside a public operation *)

RdConfig == <<"rd", _CONFIG_REG>>
WrConfig == <<"wr", _CONFIG_REG>>
RdData   == <<"rd", _DATA_REG>>

Goto(label, v) == [pc |-> label, val |-> v, ret |-> NoRet]
Return(r)      == [pc |-> "done", val |-> 0, ret |-> r]
Raise          == Return(AttributeError)

Jump(self, tgt) ==
    /\ pc'  = [pc  EXCEPT ![self] = tgt.pc]
    /\ val' = [val EXCEPT ![self] = tgt.val]
    /\ ret' = [ret EXCEPT ![self] = tgt.ret]

Log(self, t) == trace' = [trace EXCEPT ![self] = Append(@, t)]

\* The setters up to their first bus transaction: the validation.
mode_setter(mode) ==
    IF ~is_valid(ModeValues, mode) THEN Raise ELSE Goto("mode_rd", mode)

mux_setter(mux_connection) ==
    IF ~is_valid(MuxValues, mux_connection) THEN Raise ELSE Goto("mux_rd", mux_connection)

data_rate_setter(rate) ==
    IF ~is_valid(DataRateValues, rate) THEN Raise ELSE Goto("dr_rd", rate)

input_channel_setter_Unchecked(channel) == Goto("mux_rd", 4 + channel)

input_channel_setter(channel) ==
    IF channel \notin 0 .. 3 THEN Raise ELSE Goto("mux_rd", 4 + channel)

voltage_getter == Goto("v_mode", 0)

\* __init__ after self.mode = Mode.CONTINUOUS and after self.mux = Mux.MUX_AIN0_GND
init_then_mux       == mux_setter(MUX_AIN0_GND)
init_then_data_rate == data_rate_setter(RATE_3300SPS)

read_then_voltage_Live == Goto("v_volts", 0)

\* read(channel) after self.input_channel = channel and after self.mode = Mode.ONE_SHOT
read_then_mode    == mode_setter(ONE_SHOT)
read_then_voltage == voltage_getter

\* A client running tla.input_channel = c; tla.mode = Mode.ONE_SHOT; tla.voltage
composite_then_mode    == mode_setter(ONE_SHOT)
composite_then_voltage == voltage_getter

\* Where control goes when the mode, mux or data_rate setter returns normally.
after_mode_setter(o) ==
    CASE o.name = "init"      -> init_then_mux
      [] o.name = "read"      -> read_then_voltage
      [] o.name = "composite" -> composite_then_voltage
      [] OTHER                -> Return(None)

after_mux_setter(o) ==
    CASE o.name = "init"      -> init_then_data_rate
      [] o.name = "read"      -> read_then_mode
      [] o.name = "composite" -> composite_then_mode
      [] OTHER                -> Return(None)

after_data_rate_setter(o) == Return(None)

----------------------------------------------------------------------------
(* Initial state: a device with some prior content, no handle yet *)

\* No acquisition has produced the cached result (it is None or absent).
NoAcq == [mux |-> 0 - 1, range |-> 0 - 1]

Init ==
    /\ config \in PriorConfigs
    /\ data \in DataValues
    /\ last_one_shot = NoAttr
    /\ range = NoAttr
    /\ lock = NoCaller
    /\ pc    = [c \in Callers |-> IF c = "A" THEN "new" ELSE "done"]
    /\ op    = [c \in Callers |-> [name |-> "none", arg |-> 0]]
    /\ val   = [c \in Callers |-> 0]
    /\ buf   = [c \in Callers |-> 0]
    /\ raw   = [c \in Callers |-> <<>>]
    /\ ret   = [c \in Callers |-> NoRet]
    /\ trace = [c \in Callers |-> <<>>]
    /\ acq = NoAcq

----------------------------------------------------------------------------
(* Public operations: the call, up to the first bus transaction *)

\* The handle exists and the caller is between two operations.
Ready(self) == pc[self] = "done" /\ range # NoAttr

StartOp(self, name, arg, tgt) ==
    /\ op'    = [op    EXCEPT ![self] = [name |-> name, arg |-> arg]]
    /\ trace' = [trace EXCEPT ![self] = <<>>]
    /\ raw'   = [raw   EXCEPT ![self] = <<>>]
    /\ Jump(self, tgt)
    /\ UNCHANGED <<config, data, lock, buf>>

Construct(self) ==
    /\ pc[self] = "new"
    /\ last_one_shot' = None
    /\ acq' = NoAcq
    /\ StartOp(self, "init", 0, mode_setter(CONTINUOUS))
    /\ UNCHANGED range

SetMode(self) ==
    /\ Ready(self)
    /\ \E mode \in ModeArgs : StartOp(self, "set_mode", mode, mode_setter(mode))
    /\ UNCHANGED <<handleVars, acq>>

SetMux(self) ==
    /\ Ready(self)
    /\ \E m \in MuxArgs : StartOp(self, "set_mux", m, mux_setter(m))
    /\ UNCHANGED <<handleVars, acq>>

SetDataRate(self) ==
    /\ Ready(self)
    /\ \E rate \in DataRateArgs : StartOp(self, "set_data_rate", rate, data_rate_setter(rate))
    /\ UNCHANGED <<handleVars, acq>>

SetInputChannel(self) ==
    /\ Ready(self)
    /\ \E channel \in ChannelArgs :
           StartOp(self, "set_input_channel", channel, input_channel_setter(channel))
    /\ UNCHANGED <<handleVars, acq>>

\* tla.range = r: the class defines no range property, the attribute is assigned.
SetRangeTo(self, r) ==
    /\ Ready(self)
    /\ range' = PyInt(r)
    /\ StartOp(self, "set_range", r, Return(None))
    /\ UNCHANGED <<last_one_shot, acq>>

SetRange(self) == \E r \in RangeArgs : SetRangeTo(self, r)

GetRange(self) ==
    /\ Ready(self)
    /\ StartOp(self, "get_range", 0, Return(range))
    /\ UNCHANGED <<handleVars, acq>>

GetVoltage(self) ==
    /\ Ready(self)
    /\ StartOp(self, "voltage", 0, voltage_getter)
    /\ UNCHANGED <<handleVars, acq>>

Read(self) ==
    /\ Ready(self)
    /\ \E channel \in ChannelArgs :
           StartOp(self, "read", channel, input_channel_setter(channel))
    /\ UNCHANGED <<handleVars, acq>>

Composite(self) ==
    /\ Ready(self)
    /\ \E channel \in ChannelArgs :
           StartOp(self, "composite", channel, input_channel_setter(channel))
    /\ UNCHANGED <<handleVars, acq>>

\* A field getter is one read transaction of CONFIG.
GetField(self, name, field) ==
    /\ Ready(self)
    /\ lock = NoCaller
    /\ op'    = [op    EXCEPT ![self] = [name |-> name, arg |-> 0]]
    /\ trace' = [trace EXCEPT ![self] = <<RdConfig>>]
    /\ raw'   = [raw   EXCEPT ![self] = <<>>]
    /\ Jump(self, Return(PyInt(field)))
    /\ UNCHANGED <<config, data, lock, buf, handleVars, acq>>

GetMode(self)         == GetField(self, "get_mode", _mode_of(config))
GetMux(self)          == GetField(self, "get_mux", _mux_of(config))
GetDataRate(self)     == GetField(self, "get_data_rate", _data_rate_of(config))
GetInputChannel(self) == GetField(self, "get_input_channel", _mux_of(config))

----------------------------------------------------------------------------
(* Bus transactions of the setters and of voltage *)

RmwRead_NoLock(self, from, to) ==
    /\ pc[self] = from
    /\ buf' = [buf EXCEPT ![self] = config]
    /\ pc'  = [pc  EXCEPT ![self] = to]
    /\ Log(self, RdConfig)
    /\ UNCHANGED <<config, data, handleVars, acq, lock, op, val, raw, ret>>

\* RWBit/RWBits.__set__, first half: take the bus, read CONFIG into the buffer.
RmwRead(self, from, to) ==
    /\ pc[self] = from
    /\ lock = NoCaller
    /\ lock' = self
    /\ buf' = [buf EXCEPT ![self] = config]
    /\ pc'  = [pc  EXCEPT ![self] = to]
    /\ Log(self, RdConfig)
    /\ UNCHANGED <<config, data, handleVars, acq, op, val, raw, ret>>

\* RWBit/RWBits.__set__, second half: write the changed buffer, release the bus.
RmwWrite(self, from, reg, tgt) ==
    /\ pc[self] = from
    /\ lock = self
    /\ config' = reg
    /\ lock' = NoCaller
    /\ buf' = [buf EXCEPT ![self] = 0]
    /\ Log(self, WrConfig)
    /\ Jump(self, tgt)
    /\ UNCHANGED <<data, op, raw>>

ModeWrite_NoAcquire(self) ==
    /\ RmwWrite(self, "mode_wr", SetBits(buf[self], 1, MODE_BIT, val[self]),
                after_mode_setter(op[self]))
    /\ UNCHANGED <<handleVars, acq>>

\* self._mode = mode
ModeRead(self) == RmwRead(self, "mode_rd", "mode_wr")

ModeWrite(self) ==
    /\ RmwWrite(self, "mode_wr", SetBits(buf[self], 1, MODE_BIT, val[self]),
                IF val[self] = CONTINUOUS THEN after_mode_setter(op[self])
                                          ELSE Goto("os_rd", val[self]))
    /\ UNCHANGED <<handleVars, acq>>

\* self._os = True
OsRead(self) == RmwRead(self, "os_rd", "os_wr")

OsWrite(self) ==
    /\ RmwWrite(self, "os_wr", SetBits(buf[self], 1, OS_BIT, 1), Goto("poll", val[self]))
    /\ UNCHANGED <<handleVars, acq>>

\* Reads of the status bit logged since the trigger was written.
LastWrite(t) ==
    LET W == {i \in 1 .. Len(t) : t[i] = WrConfig}
    IN  IF W = {} THEN 0 ELSE CHOOSE i \in W : \A j \in W : j <= i
PollsLogged(t) == Len(t) - LastWrite(t)

PollBusy_Timeout(self) ==
    /\ pc[self] = "poll"
    /\ lock = NoCaller
    /\ _os_of(config) = 1
    /\ Log(self, RdConfig)
    /\ Jump(self, IF PollsLogged(trace[self]) < MaxPoll THEN Goto("poll", val[self])
                                                       ELSE Raise)
    /\ UNCHANGED <<config, data, handleVars, acq, lock, op, buf, raw>>

\* while self._os: pass -- a read that finds the bit set
PollBusy(self) ==
    /\ pc[self] = "poll"
    /\ lock = NoCaller
    /\ _os_of(config) = 1
    /\ PollsLogged(trace[self]) < MaxPoll
    /\ Log(self, RdConfig)
    /\ UNCHANGED <<config, data, handleVars, acq, lock, pc, op, val, buf, raw, ret>>

PollReady_NoWait(self) ==
    /\ pc[self] = "poll"
    /\ lock = NoCaller
    /\ Log(self, RdConfig)
    /\ pc' = [pc EXCEPT ![self] = "os_volts"]
    /\ UNCHANGED <<config, data, handleVars, acq, lock, op, val, buf, raw, ret>>

\* while self._os: pass -- the read that finds the bit clear
PollReady(self) ==
    /\ pc[self] = "poll"
    /\ lock = NoCaller
    /\ _os_of(config) = 0
    /\ Log(self, RdConfig)
    /\ pc' = [pc EXCEPT ![self] = "os_volts"]
    /\ UNCHANGED <<config, data, handleVars, acq, lock, op, val, buf, raw, ret>>

\* self._last_one_shot = self._read_volts()
OsVolts(self) ==
    /\ pc[self] = "os_volts"
    /\ lock = NoCaller
    /\ last_one_shot' = _read_volts(data, range.num)
    /\ acq' = [mux |-> _mux_of(config), range |-> range.num]
    /\ raw' = [raw EXCEPT ![self] = Append(@, data)]
    /\ Log(self, RdData)
    /\ Jump(self, after_mode_setter(op[self]))
    /\ UNCHANGED <<config, data, range, lock, op, buf>>

MuxWrite_Clobber(self) ==
    /\ RmwWrite(self, "mux_wr", val[self] * Pow2(MUX_LOW), after_mux_setter(op[self]))
    /\ UNCHANGED <<handleVars, acq>>

MuxWrite_Invalidate(self) ==
    /\ RmwWrite(self, "mux_wr", SetBits(buf[self], FIELD_BITS, MUX_LOW, val[self]),
                after_mux_setter(op[self]))
    /\ last_one_shot' = None
    /\ UNCHANGED <<range, acq>>

\* self._mux = mux_connection, self._mux = 4 + channel
MuxRead(self) == RmwRead(self, "mux_rd", "mux_wr")

MuxWrite(self) ==
    /\ RmwWrite(self, "mux_wr", SetBits(buf[self], FIELD_BITS, MUX_LOW, val[self]),
                after_mux_setter(op[self]))
    /\ UNCHANGED <<handleVars, acq>>

\* self._data_rate = rate; in __init__, self.range = Range.RANGE_2_048V follows
DataRateRead(self) == RmwRead(self, "dr_rd", "dr_wr")

DataRateWrite(self) ==
    /\ RmwWrite(self, "dr_wr", SetBits(buf[self], FIELD_BITS, DR_LOW, val[self]),
                after_data_rate_setter(op[self]))
    /\ range' = IF op[self].name = "init" THEN PyInt(RANGE_2_048V) ELSE range
    /\ UNCHANGED <<last_one_shot, acq>>

voltage_branch_AlwaysLive(mode, cached) == Goto("v_volts", 0)

\* voltage: if self.mode == Mode.ONE_SHOT: return self._last_one_shot
voltage_branch(mode, cached) ==
    IF mode = ONE_SHOT THEN Return(cached) ELSE Goto("v_volts", 0)

VoltageMode(self) ==
    /\ pc[self] = "v_mode"
    /\ lock = NoCaller
    /\ Log(self, RdConfig)
    /\ Jump(self, voltage_branch(_mode_of(config), last_one_shot))
    /\ UNCHANGED <<config, data, handleVars, acq, lock, op, buf, raw>>

\* voltage: return self._read_volts()
VoltageRead(self) ==
    /\ pc[self] = "v_volts"
    /\ lock = NoCaller
    /\ raw' = [raw EXCEPT ![self] = Append(@, data)]
    /\ Log(self, RdData)
    /\ Jump(self, Return(_read_volts(data, range.num)))
    /\ UNCHANGED <<config, data, handleVars, acq, lock, op, buf>>

----------------------------------------------------------------------------
(* The device *)

\* The conversion completes: the device clears the status bit.
DeviceConversionComplete ==
    /\ _os_of(config) = 1
    /\ config' = SetBits(config, 1, OS_BIT, 0)
    /\ UNCHANGED <<data, handleVars, acq, lock, callVars>>

\* A new sample appears in the DATA register.
DeviceSample ==
    /\ \E d \in DataValues \ {data} : data' = d
    /\ UNCHANGED <<config, handleVars, acq, lock, callVars>>

----------------------------------------------------------------------------
(* Specifications *)

\* A caller makes a call.
Call(self) ==
    \/ Construct(self)
    \/ SetMode(self)
    \/ SetMux(self)
    \/ SetDataRate(self)
    \/ SetInputChannel(self)
    \/ SetRange(self)
    \/ GetRange(self)
    \/ GetMode(self)
    \/ GetMux(self)
    \/ GetDataRate(self)
    \/ GetInputChannel(self)
    \/ GetVoltage(self)
    \/ Read(self)
    \/ Composite(self)

\* A caller's running operation makes its next bus transaction.
Run(self) ==
    \/ ModeRead(self)
    \/ ModeWrite(self)
    \/ OsRead(self)
    \/ OsWrite(self)
    \/ PollBusy(self)
    \/ PollReady(self)
    \/ OsVolts(self)
    \/ MuxRead(self)
    \/ MuxWrite(self)
    \/ DataRateRead(self)
    \/ DataRateWrite(self)
    \/ VoltageMode(self)
    \/ VoltageRead(self)

\* One caller: the single-threaded use the driver is written for.
Next ==
    \/ DeviceConversionComplete
    \/ DeviceSample
    \/ Call("A")
    \/ Run("A")

Spec == Init /\ [][Next]_vars

\* The running operation keeps executing, and a conversion the device has started
\* completes.
FairSpec ==
    /\ Spec
    /\ WF_vars(Run("A"))
    /\ WF_vars(DeviceConversionComplete)

\* The conversion alone: a constructed handle in CONTINUOUS mode whose voltage query
\* is about to read DATA, for every content the 16-bit DATA register can hold.
ConstructedConfig ==
    SetBits(SetBits(SetBits(SetBits(34179, 1, OS_BIT, 0), 1, MODE_BIT, CONTINUOUS),
                    FIELD_BITS, MUX_LOW, MUX_AIN0_GND),
            FIELD_BITS, DR_LOW, RATE_3300SPS)

ConvInit ==
    /\ config = ConstructedConfig
    /\ data \in 0 .. REG_MOD - 1
    /\ last_one_shot = None
    /\ range = PyInt(RANGE_2_048V)
    /\ lock = NoCaller
    /\ pc    = [c \in Callers |-> IF c = "A" THEN "v_volts" ELSE "done"]
    /\ op    = [c \in Callers |-> IF c = "A" THEN [name |-> "voltage", arg |-> 0]
                                             ELSE [name |-> "none", arg |-> 0]]
    /\ val   = [c \in Callers |-> 0]
    /\ buf   = [c \in Callers |-> 0]
    /\ raw   = [c \in Callers |-> <<>>]
    /\ ret   = [c \in Callers |-> NoRet]
    /\ trace = [c \in Callers |-> IF c = "A" THEN <<RdConfig>> ELSE <<>>]
    /\ acq = NoAcq

ConvNext == VoltageRead("A")

ConvSpec == ConvInit /\ [][ConvNext]_vars

\* The scaling alone: a constructed handle in CONTINUOUS mode on which the caller
\* sets any of the six Range codes and any data rate, and queries voltage.
ScaleInit ==
    /\ config = ConstructedConfig
    /\ data \in DataValues
    /\ last_one_shot = None
    /\ range = PyInt(RANGE_2_048V)
    /\ lock = NoCaller
    /\ pc    = [c \in Callers |-> "done"]
    /\ op    = [c \in Callers |-> [name |-> "none", arg |-> 0]]
    /\ val   = [c \in Callers |-> 0]
    /\ buf   = [c \in Callers |-> 0]
    /\ raw   = [c \in Callers |-> <<>>]
    /\ ret   = [c \in Callers |-> NoRet]
    /\ trace = [c \in Callers |-> <<>>]
    /\ acq = NoAcq

ScaleNext ==
    \/ DeviceSample
    \/ \E r \in RangeValues : SetRangeTo("A", r)
    \/ SetDataRate("A")
    \/ DataRateRead("A")
    \/ DataRateWrite("A")
    \/ GetVoltage("A")
    \/ VoltageMode("A")
    \/ VoltageRead("A")

ScaleSpec == ScaleInit /\ [][ScaleNext]_vars

\* Two callers share one constructed handle and each runs read(channel) again and
\* again; their bus transactions interleave wherever the bus lock is free.
ConcInit == ScaleInit

ConcRun(self) ==
    \/ MuxRead(self)
    \/ MuxWrite(self)
    \/ ModeRead(self)
    \/ ModeWrite(self)
    \/ OsRead(self)
    \/ OsWrite(self)
    \/ PollBusy(self)
    \/ PollReady(self)
    \/ OsVolts(self)
    \/ VoltageMode(self)

ConcNext ==
    \/ DeviceConversionComplete
    \/ DeviceSample
    \/ \E self \in Callers : Read(self)
    \/ \E self \in Callers : ConcRun(self)

ConcSpec == ConcInit /\ [][ConcNext]_vars

----------------------------------------------------------------------------
(* Claims *)

Returned(c, name) == pc[c] = "done" /\ op[c].name = name

\* The step is one of caller c's own (a call or a bus transaction), not the device's.
CallerStep(c) == pc'[c] # pc[c] \/ op'[c] # op[c] \/ trace'[c] # trace[c]

\* C1: after the constructor returns, whatever CONFIG held before, the device's
\* mode, mux, data-rate and gain fields hold the defaults 0, 4, 6 and 2.
C1_ConstructorWritesDefaults ==
    \A c \in Callers :
        Returned(c, "init") =>
            /\ _mode_of(config) = CONTINUOUS
            /\ _mux_of(config) = MUX_AIN0_GND
            /\ _data_rate_of(config) = RATE_3300SPS
            /\ _pga_of(config) = RANGE_2_048V

\* A call whose argument lies outside the valid set of the operation.
InvalidCall(o) ==
    \/ o.name = "set_mode" /\ o.arg \notin {0, 1}
    \/ o.name = "set_mux" /\ o.arg \notin 0 .. 7
    \/ o.name = "set_data_rate" /\ o.arg \notin 0 .. 6
    \/ o.name \in {"set_input_channel", "read"} /\ o.arg \notin 0 .. 3

\* C2: a setter or read called with a value outside its valid set raises before any
\* bus transaction: the call has returned the error with no register read or write
\* and no DATA read, and the step that makes the call leaves the CONFIG register,
\* the cached one-shot result and the rest of the handle as they were.
C2_InvalidNeverReachesBus ==
    /\ [](\A c \in Callers :
            InvalidCall(op[c]) =>
                /\ pc[c] = "done"
                /\ ret[c] = AttributeError
                /\ trace[c] = <<>>
                /\ raw[c] = <<>>)
    /\ [][\A c \in Callers :
            (InvalidCall(op'[c]) /\ CallerStep(c)) =>
                /\ config' = config
                /\ last_one_shot' = last_one_shot
                /\ range' = range
                /\ lock' = lock]_vars

C2_Witness ==
    /\ op["A"] = [name |-> "read", arg |-> 4]
    /\ ret["A"] = AttributeError
    /\ _mode_of(config) = ONE_SHOT
    /\ last_one_shot.kind = "volts"

\* C3: a voltage query made while the mode bit is ONE_SHOT returns the cached result
\* after the one read of CONFIG that finds the mode, with no read of DATA and no
\* write, whatever DATA holds; the cache changes only when the constructor clears it
\* or an acquisition started by setting ONE_SHOT stores its sample.  A query made
\* while the mode bit is CONTINUOUS reads DATA and returns the conversion of the
\* content it holds at that read, and leaves the cache alone.
C3_VoltageOneShotCachedContinuousLive ==
    /\ [](\A c \in Callers :
            Returned(c, "voltage") =>
                IF _mode_of(config) = ONE_SHOT
                THEN /\ ret[c] = last_one_shot
                     /\ trace[c] = <<RdConfig>>
                     /\ raw[c] = <<>>
                ELSE /\ trace[c] = <<RdConfig, RdData>>
                     /\ Len(raw[c]) = 1
                     /\ ret[c] = _read_volts(raw[c][1], range.num))
    /\ [][\A c \in Callers :
            /\ (op[c].name = "voltage" /\ pc[c] = "v_mode" /\ CallerStep(c)
                    /\ _mode_of(config) = ONE_SHOT) =>
                   /\ pc'[c] = "done"
                   /\ ret'[c] = last_one_shot
                   /\ UNCHANGED <<config, data, last_one_shot, range, raw>>
            /\ (op[c].name = "voltage" /\ pc[c] = "v_mode" /\ CallerStep(c)
                    /\ _mode_of(config) = CONTINUOUS) =>
                   /\ pc'[c] = "v_volts"
                   /\ UNCHANGED <<config, data, last_one_shot, range, raw>>
            /\ (op[c].name = "voltage" /\ pc[c] = "v_volts" /\ CallerStep(c)) =>
                   /\ pc'[c] = "done"
                   /\ ret'[c] = _read_volts(data, range.num)
                   /\ raw'[c] = <<data>>
                   /\ UNCHANGED <<config, data, last_one_shot, range>>]_vars
    /\ [][last_one_shot' # last_one_shot =>
            \E c \in Callers : pc[c] \in {"new", "os_volts"}]_vars

\* A one-shot query has returned the cache although DATA now converts to another value.
C3_Witness ==
    /\ Returned("A", "voltage")
    /\ _mode_of(config) = ONE_SHOT
    /\ ret["A"].kind = "volts"
    /\ trace["A"] = <<RdConfig>>
    /\ _read_volts(data, range.num) # ret["A"]

\* The bus transactions of one acquisition: the read-modify-write of the mode
\* field, the read-modify-write of the trigger bit, one or more reads of the
\* status bit, one read of DATA.
OneShotTrace(t) ==
    /\ Len(t) >= 6
    /\ SubSeq(t, 1, 4) = <<RdConfig, WrConfig, RdConfig, WrConfig>>
    /\ \A i \in 5 .. Len(t) - 1 : t[i] = RdConfig
    /\ t[Len(t)] = RdData

\* C4: set mode = ONE_SHOT writes the mode field, then writes the trigger bit, then
\* reads the status bit until a read finds it clear, then reads DATA exactly once and
\* stores its conversion as the cached result; DATA is read only after the status
\* bit was read clear.
C4_OneShotProtocolOrder ==
    /\ [](\A c \in Callers :
            (Returned(c, "set_mode") /\ op[c].arg = ONE_SHOT) =>
                /\ OneShotTrace(trace[c])
                /\ Len(raw[c]) = 1
                /\ last_one_shot = _read_volts(raw[c][1], range.num)
                /\ _mode_of(config) = ONE_SHOT)
    /\ [][\A c \in Callers :
            /\ (pc[c] = "mode_wr" /\ CallerStep(c)) =>
                   /\ _mode_of(config') = val[c]
                   /\ val[c] = ONE_SHOT => pc'[c] = "os_rd"
            /\ (pc[c] = "os_wr" /\ CallerStep(c)) =>
                   /\ _os_of(config') = 1
                   /\ _mode_of(config') = ONE_SHOT
                   /\ pc'[c] = "poll"
            /\ (pc[c] = "poll" /\ pc'[c] # "poll") =>
                   /\ _os_of(config) = 0
                   /\ pc'[c] = "os_volts"
            /\ (pc'[c] = "os_volts" /\ pc[c] # "os_volts") => pc[c] = "poll"
            /\ (pc[c] = "os_volts" /\ CallerStep(c)) =>
                   /\ last_one_shot' = _read_volts(data, range.num)
                   /\ raw'[c] = <<data>>
            /\ (op'[c].name = "set_mode" /\ Len(raw'[c]) > Len(raw[c])) =>
                   pc[c] = "os_volts"]_vars

\* An acquisition that had to poll more than once has returned.
C4_Witness ==
    /\ Returned("A", "set_mode")
    /\ op["A"].arg = ONE_SHOT
    /\ Len(trace["A"]) > 6
    /\ last_one_shot.kind = "volts"
    /\ last_one_shot.num # 0

\* C5: set mode = CONTINUOUS returns after the one write of the mode field and never
\* polls.  An acquisition leaves the poll loop only by a read that finds the status
\* bit clear: while the bit is set the call stays in the loop, with no error and no
\* other way out; and when the device's conversion completes (fairness of the
\* device and of the running call) the call returns.
C5_OneShotReturnsIffDeviceClears ==
    /\ [](\A c \in Callers :
            (op[c].name = "set_mode" /\ op[c].arg = CONTINUOUS) =>
                /\ pc[c] \in {"mode_rd", "mode_wr", "done"}
                /\ pc[c] = "done" => trace[c] = <<RdConfig, WrConfig>>)
    /\ [][\A c \in Callers :
            (pc[c] = "poll" /\ _os_of(config) = 1) =>
                /\ pc'[c] = "poll"
                /\ ret'[c] = NoRet]_vars
    /\ \A c \in Callers : (pc[c] = "poll") ~> (pc[c] = "done")

\* The call is in the poll loop, has read the bit set as often as the model logs,
\* and the device has not cleared it.
C5_Witness ==
    /\ pc["A"] = "poll"
    /\ op["A"].name \in {"set_mode", "read"}
    /\ _os_of(config) = 1
    /\ PollsLogged(trace["A"]) = MaxPoll

\* The bus transactions of read(channel): the read-modify-write of the mux field,
\* one acquisition, and the read of CONFIG by which voltage finds the mode.
ReadTrace(t) ==
    /\ Len(t) >= 9
    /\ SubSeq(t, 1, 2) = <<RdConfig, WrConfig>>
    /\ OneShotTrace(SubSeq(t, 3, Len(t) - 1))
    /\ t[Len(t)] = RdConfig

\* What a completed run leaves, as a function of the device's responses (how often
\* the status bit read set, the sample read): transactions, CONFIG fields, cache, result.
ReadOutcome(c) ==
    /\ ReadTrace(trace[c])
    /\ _mux_of(config) = 4 + op[c].arg
    /\ _mode_of(config) = ONE_SHOT
    /\ _os_of(config) = 0
    /\ Len(raw[c]) = 1
    /\ last_one_shot = _read_volts(raw[c][1], range.num)
    /\ ret[c] = last_one_shot

\* The CONFIG fields that neither read nor the composite writes.
OtherFields(reg) == <<_pga_of(reg), _data_rate_of(reg), GetBits(reg, DR_LOW, 0)>>

\* C6: for a channel in 0..3, read(channel) and the sequence set input_channel =
\* channel; set mode = ONE_SHOT; get voltage have the same outcome for the same
\* device responses: the same bus transactions, the same CONFIG and cache, and the
\* same result, the conversion of the one sample read after the status bit read
\* clear with mux = 4 + channel.
C6_ReadEqualsComposite ==
    /\ [](\A c \in Callers :
            /\ (Returned(c, "read") /\ op[c].arg \in 0 .. 3) => ReadOutcome(c)
            /\ (Returned(c, "composite") /\ op[c].arg \in 0 .. 3) => ReadOutcome(c))
    /\ [][\A c \in Callers :
            (op'[c].name \in {"read", "composite"} /\ CallerStep(c)) =>
                /\ OtherFields(config') = OtherFields(config)
                /\ range' = range
                /\ pc[c] = "os_volts" =>
                       /\ _mux_of(config) = 4 + op[c].arg
                       /\ _os_of(config) = 0
                       /\ raw'[c] = <<data>>]_vars

\* read(3) has returned a cached sample that DATA no longer holds.
C6_Witness ==
    /\ Returned("A", "read")
    /\ op["A"].arg = 3
    /\ ret["A"].kind = "volts"
    /\ _read_volts(data, range.num) # ret["A"]
    /\ Len(trace["A"]) > 9

\* C7: the handle keeps no copy of the gain/range field: set range is a
\* read-modify-write of the gain field of CONFIG, get range reads CONFIG, and
\* between operations the range the conversion uses is the gain field the device
\* holds.
C7_RangeIsDeviceGainField ==
    \A c \in Callers :
        /\ Returned(c, "set_range") =>
               /\ trace[c] = <<RdConfig, WrConfig>>
               /\ _pga_of(config) = op[c].arg
        /\ Returned(c, "get_range") => trace[c] = <<RdConfig>>
        /\ Ready(c) => range.num = _pga_of(config)

Abs(x) == IF x < 0 THEN -x ELSE x

\* C8: for a range code in 0..5 the conversion maps DATA 0x7FF0 to +FS, 0x0000 to 0
\* and 0x8000 to -FS, and no DATA content to a magnitude above FS: with s the
\* decoded sample, |s * v_fsr| <= 2047 * v_fsr.
C8_ConversionWithinFullScale ==
    \A c \in Callers :
        (Returned(c, "voltage") /\ Len(raw[c]) = 1 /\ range.num \in 0 .. 5) =>
            LET fs == v_fsr(range.num)
            IN  /\ Abs(ret[c].num) <= 2047 * fs
                /\ raw[c][1] = 32752 => ret[c].num = 2047 * fs
                /\ raw[c][1] = 0 => ret[c].num = 0
                /\ raw[c][1] = 32768 => ret[c].num = -(2047 * fs)

\* C9: for every content d of DATA, taken as a signed 16-bit value sd, the decoded
\* sample is floor(sd / 16): it lies in -2048..2047, the low four bits of d do not
\* change it, and 0x7FF0, 0x0000, 0x8000 decode to 2047, 0, -2048.  The voltage a
\* live query returns is that sample times the full-scale value.
C9_ReadLsbIsFloorDiv16 ==
    \A c \in Callers :
        (Returned(c, "voltage") /\ Len(raw[c]) = 1) =>
            LET d  == raw[c][1]
                sd == d - REG_MOD * (d \div 32768)
                q  == _read_lsb(d)
            IN  /\ 16 * q <= sd /\ sd < 16 * q + 16
                /\ q \in -2048 .. 2047
                /\ q = _read_lsb(d - (d % 16))
                /\ d = 32752 => q = 2047
                /\ d = 0 => q = 0
                /\ d = 32768 => q = -2048
                /\ ret[c].num = q * v_fsr(range.num)

\* A live query has decoded a negative sample whose low four bits are not zero.
C9_Witness ==
    /\ Returned("A", "voltage")
    /\ raw["A"] = <<65525>>
    /\ ret["A"] = Volts(-1 * v_fsr(range.num))

\* C10: get input_channel returns the logical channel 0..3: with a single-ended
\* input selected (mux = 4 + c, as set input_channel = c leaves it) it returns c.
C10_InputChannelRoundTrip ==
    \A c \in Callers :
        (Returned(c, "get_input_channel") /\ _mux_of(config) \in 4 .. 7) =>
            /\ ret[c].num \in 0 .. 3
            /\ 4 + ret[c].num = _mux_of(config)


\* The CONFIG fields other than mux, and other than data rate (bits 0..4 included).
FieldsButMux(reg) ==
    <<_os_of(reg), _pga_of(reg), _mode_of(reg), _data_rate_of(reg), GetBits(reg, DR_LOW, 0)>>
FieldsButDataRate(reg) ==
    <<_os_of(reg), _mux_of(reg), _pga_of(reg), _mode_of(reg), GetBits(reg, DR_LOW, 0)>>

\* The step is the register write of a field setter called on its own.
SetterWrite(c, names, label) == op[c].name \in names /\ pc[c] = label /\ CallerStep(c)

\* C11 as stated: the write of set input_channel = c leaves mux = 4 + c and every
\* other field of the device's CONFIG register (status/trigger bit, gain, mode, data
\* rate) and the cached result as they were before it; the write of set mux and of
\* set data_rate changes only its own field.
C11_SetterChangesOnlyOwnField ==
    [][\A c \in Callers :
        /\ SetterWrite(c, {"set_input_channel"}, "mux_wr") =>
               /\ _mux_of(config') = 4 + op[c].arg
               /\ FieldsButMux(config') = FieldsButMux(config)
               /\ last_one_shot' = last_one_shot
        /\ SetterWrite(c, {"set_mux"}, "mux_wr") =>
               /\ _mux_of(config') = op[c].arg
               /\ FieldsButMux(config') = FieldsButMux(config)
               /\ last_one_shot' = last_one_shot
        /\ SetterWrite(c, {"set_data_rate"}, "dr_wr") =>
               /\ _data_rate_of(config') = op[c].arg
               /\ FieldsButDataRate(config') = FieldsButDataRate(config)
               /\ last_one_shot' = last_one_shot]_vars

\* C11 as amended: the write carries the setter's own field and every other field as
\* the setter's preceding read of CONFIG returned it; so the gain, mode and the other
\* of the mux and data-rate fields are left as they were, and so is the cached
\* result, while the status/trigger bit is written back as it was read.  The setter
\* issues that one read and one write and nothing else.
C11_SetterWritesBackWhatItRead ==
    /\ [][\A c \in Callers :
            /\ SetterWrite(c, {"set_input_channel"}, "mux_wr") =>
                   /\ _mux_of(config') = 4 + op[c].arg
                   /\ FieldsButMux(config') = FieldsButMux(buf[c])
                   /\ Tail(FieldsButMux(config')) = Tail(FieldsButMux(config))
                   /\ UNCHANGED <<last_one_shot, range, data>>
            /\ SetterWrite(c, {"set_mux"}, "mux_wr") =>
                   /\ _mux_of(config') = op[c].arg
                   /\ FieldsButMux(config') = FieldsButMux(buf[c])
                   /\ Tail(FieldsButMux(config')) = Tail(FieldsButMux(config))
                   /\ UNCHANGED <<last_one_shot, range, data>>
            /\ SetterWrite(c, {"set_data_rate"}, "dr_wr") =>
                   /\ _data_rate_of(config') = op[c].arg
                   /\ FieldsButDataRate(config') = FieldsButDataRate(buf[c])
                   /\ Tail(FieldsButDataRate(config')) = Tail(FieldsButDataRate(config))
                   /\ UNCHANGED <<last_one_shot, range, data>>]_vars
    /\ [](\A c \in Callers :
            (op[c].name \in {"set_input_channel", "set_mux", "set_data_rate"}
                 /\ pc[c] = "done" /\ ~InvalidCall(op[c])) =>
                /\ trace[c] = <<RdConfig, WrConfig>>
                /\ op[c].name = "set_input_channel" => _mux_of(config) = 4 + op[c].arg
                /\ op[c].name = "set_mux" => _mux_of(config) = op[c].arg
                /\ op[c].name = "set_data_rate" => _data_rate_of(config) = op[c].arg)

\* set input_channel = 2 has returned in ONE_SHOT mode with a cached sample in place.
C11_Witness ==
    /\ Returned("A", "set_input_channel")
    /\ op["A"].arg = 3
    /\ _mux_of(config) = 7
    /\ _mode_of(config) = ONE_SHOT
    /\ _data_rate_of(config) = 0
    /\ last_one_shot.kind = "volts"


\* C12: for every Range code 0..5 the full-scale value the conversion uses is the
\* span the Range entry names (6144, 4096, 2048, 1024, 512, 256 mV): a live query
\* returns the decoded sample times that span, whatever data rate is set.
C12_FullScaleMatchesRangeName ==
    \A c \in Callers :
        (Returned(c, "voltage") /\ Len(raw[c]) = 1 /\ range.num \in 0 .. 5) =>
            /\ ret[c].num = _read_lsb(raw[c][1]) * RangeSpan(range.num)
            /\ raw[c][1] = 32752 => ret[c].num = 2047 * RangeSpan(range.num)

\* A live query at the top range, with a data rate other than the default, has
\* returned full scale.
C12_Witness ==
    /\ Returned("A", "voltage")
    /\ range.num = 0
    /\ _data_rate_of(config) = 0
    /\ raw["A"] = <<32752>>
    /\ ret["A"] = Volts(2047 * 6144)

\* C13: set range rejects a value outside the Range codes 0..5 with an error and
\* changes nothing, so the range the conversion uses is always one of 0..5.
C13_RangeValidated ==
    \A c \in Callers :
        /\ (Returned(c, "set_range") /\ op[c].arg \notin 0 .. 5) => ret[c] = AttributeError
        /\ Ready(c) => range.num \in 0 .. 5


\* Every caller is between two operations of a constructed handle.
Quiescent == \A c \in Callers : Ready(c)

\* C14: between operations, if the mode bit is ONE_SHOT, the cached result was
\* acquired with the mux selection and the range that are configured now.
C14_CacheMatchesConfiguredInput ==
    (Quiescent /\ _mode_of(config) = ONE_SHOT /\ last_one_shot.kind = "volts") =>
        /\ acq.mux = _mux_of(config)
        /\ acq.range = range.num

\* C14 (amended): the cached result is the conversion made by the latest set
\* mode = ONE_SHOT or read, with the mux and range in force then; set
\* input_channel, set mux and set range change the configuration and leave the
\* cached result as it is, and voltage in ONE_SHOT mode returns it.
C14_CacheKeepsItsAcquisition ==
    /\ [](\A c \in Callers :
            /\ (Quiescent /\ _mode_of(config) = ONE_SHOT /\ last_one_shot.kind = "volts") =>
                   /\ acq.mux \in MuxValues
                   /\ \E d \in DataValues : last_one_shot = _read_volts(d, acq.range)
            /\ (/\ Returned(c, "read") \/ (Returned(c, "set_mode") /\ op[c].arg = ONE_SHOT)
                /\ ret[c] # AttributeError) =>
                   /\ acq = [mux |-> _mux_of(config), range |-> range.num]
                   /\ last_one_shot = _read_volts(raw[c][1], range.num)
            /\ (Returned(c, "voltage") /\ _mode_of(config) = ONE_SHOT) =>
                   ret[c] = last_one_shot)
    /\ [][\A c \in Callers :
            (/\ CallerStep(c)
             /\ op'[c].name \in {"set_input_channel", "set_mux", "set_range", "voltage"}) =>
                /\ last_one_shot' = last_one_shot
                /\ acq' = acq]_vars

\* In ONE_SHOT mode, after an acquisition on AIN0 at the default range, the caller
\* has selected another input and another range, and voltage has returned the
\* result of that earlier acquisition.
C14_Witness ==
    /\ Returned("A", "voltage")
    /\ _mode_of(config) = ONE_SHOT
    /\ acq = [mux |-> MUX_AIN0_GND, range |-> RANGE_2_048V]
    /\ _mux_of(config) = 7
    /\ range.num = 0
    /\ ret["A"] = Volts(2047 * 2048)
    /\ ret["A"] = last_one_shot


\* C15: between operations of a constructed handle, if the mode bit is ONE_SHOT the
\* cached result is a conversion value and not None, so voltage never returns
\* None; after construction the cached result is assigned only by the acquisition
\* step of set mode = ONE_SHOT, called directly or through read.
C15_OneShotCacheNeverEmpty ==
    /\ []((Quiescent /\ _mode_of(config) = ONE_SHOT) =>
            /\ last_one_shot.kind = "volts"
            /\ acq # NoAcq)
    /\ [](\A c \in Callers : Returned(c, "voltage") => ret[c].kind = "volts")
    /\ [][\A c \in Callers :
            (CallerStep(c) /\ last_one_shot' # last_one_shot /\ pc[c] # "new") =>
                /\ pc[c] = "os_volts"
                /\ op[c].name \in {"set_mode", "read", "composite"}
                /\ op[c].name = "set_mode" => op[c].arg = ONE_SHOT
                /\ last_one_shot' = _read_volts(data, range.num)]_vars
    /\ [][(\A c \in Callers : ~CallerStep(c)) => last_one_shot' = last_one_shot]_vars

\* set mode = ONE_SHOT has completed and a later voltage query has returned the
\* cached conversion without reading DATA.
C15_Witness ==
    /\ Quiescent
    /\ _mode_of(config) = ONE_SHOT
    /\ Returned("A", "voltage")
    /\ raw["A"] = <<>>
    /\ last_one_shot = Volts((0 - 2048) * 2048)
    /\ ret["A"] = last_one_shot


\* The caller is between the read and the write of a register read-modify-write.
InRmw(c) == pc[c] \in {"mux_wr", "mode_wr", "os_wr", "dr_wr"}

\* A read(channel) with a valid channel has returned to caller c.
ReadReturned(c) == Returned(c, "read") /\ ret[c] # AttributeError

\* C16: the only mutual exclusion is the bus lock held for one register
\* read-modify-write, during which no other caller changes CONFIG; nothing spans a
\* whole read(channel). While the other caller has never called, read(c) returns
\* the conversion of its own sample taken with mux = 4 + c; with two callers
\* interleaving, read still returns a conversion, of a sample taken on some
\* requested channel, not necessarily its own.
C16_ReadAtomicOnlyWhenSerialized ==
    \A c \in Callers :
        /\ InRmw(c) =>
               /\ lock = c
               /\ \A k \in Callers \ {c} : ~InRmw(k)
               /\ config % Pow2(OS_BIT) = buf[c] % Pow2(OS_BIT)
        /\ (ReadReturned(c) /\ \A k \in Callers \ {c} : op[k].name = "none") =>
               /\ ret[c] = _read_volts(raw[c][1], range.num)
               /\ acq.mux = 4 + op[c].arg
               /\ _mux_of(config) = 4 + op[c].arg
        /\ ReadReturned(c) =>
               /\ Len(raw[c]) = 1
               /\ \E d \in DataValues : ret[c] = _read_volts(d, range.num)
               /\ acq.mux \in {4 + ch : ch \in ChannelArgs \cap (0 .. 3)}

\* Callers A and B ran read(0) and read(3) interleaved: A read the sample 0x7FF0
\* itself, B then acquired 0x8000 with the mux on channel 3, and A's read(0) has
\* returned the conversion of B's sample.
C16_Witness ==
    /\ ReadReturned("A")
    /\ op["A"].arg = 0
    /\ op["B"] = [name |-> "read", arg |-> 3]
    /\ raw["A"] = <<32752>>
    /\ raw["B"] = <<32768>>
    /\ acq.mux = 7
    /\ ret["A"] = _read_volts(32768, range.num)
    /\ ret["A"] # _read_volts(raw["A"][1], range.num)

====
